---------------------------- MODULE Spec2Model ----------------------------
(***************************************************************************)
(* sszgen (photon-storage/fastssz, sszgen/main.go): the builder of the SSZ   *)
(* type model.  A run parses the Go files of a schema, collects the named   *)
(* type declarations (generateIR), resolves every named type into a tree of *)
(* Value nodes memoised in env.objs (encodeItem), classifies the nodes      *)
(* (isFixed) and prints one set of procedures per named type (print).       *)
(*                                                                         *)
(* Values live in a heap (a sequence of Value records, the address of a     *)
(* node being its index, 0 being nil), so that sharing between the registry *)
(* and the copies handed to use sites is visible.                           *)
(*                                                                         *)
(* The printed procedures (marshal, unmarshal, hashTreeRoot) are run on     *)
(* values of type trees under a specification of their own, CodecSpec.      *)
(***************************************************************************)
EXTENDS Integers, Sequences, FiniteSets, TLC

\* ------------------------------------------------------------------ bounds

\* Nesting of encodeItem calls after which the Go stack is taken to overflow.
MaxDepth == 6

\* ------------------------------------------------------------ small helpers

Min(a, b) == IF a < b THEN a ELSE b

contains(i, j) == \E k \in 1..Len(j) : j[k] = i

\* ------------------------------------------------------------------- Value

\* The zero Value, &Value{}: t is TypeUndefined, e is nil, o is empty.
ZeroValue ==
    [name |-> "", obj |-> "", s |-> 0, t |-> "undefined", o |-> <<>>, e |-> 0,
     c |-> FALSE, m |-> 0, ref |-> "", noPtr |-> FALSE, fixed |-> FALSE]

\* A resolution state: the declarations (e.raw), the registry (e.objs, name to
\* address), the heap, and the log of the copies encodeItem has returned.
\* new(Value) / &Value{...}: the fresh node's address is Len(heap) + 1.
alloc(st, val) == [st EXCEPT !.heap = Append(@, val)]

\* The addresses reachable from a through o and e (a itself included).
RECURSIVE Reach(_, _)
Reach(heap, a) ==
    IF a = 0 THEN {}
    ELSE {a} \cup UNION {Reach(heap, heap[a].o[i]) : i \in 1..Len(heap[a].o)}
             \cup Reach(heap, heap[a].e)

\* The tree below a, addresses replaced by the nodes they hold; Nil for nil.
Nil == [nil |-> TRUE]

RECURSIVE Tree(_, _)
Tree(heap, a) ==
    IF a = 0 THEN Nil
    ELSE [heap[a] EXCEPT !.o = [i \in 1..Len(heap[a].o) |-> Tree(heap, heap[a].o[i])],
                         !.e = Tree(heap, heap[a].e)]

\* -------------------------------------------------------------- Value.copy

RECURSIVE copy(_, _)
RECURSIVE copyFields(_, _, _, _)

\* The loop of copy over v.o: vv.o[indx] = v.o[indx].copy().
copyFields(st, o, indx, acc) ==
    IF indx > Len(o) THEN [st |-> st, o |-> acc]
    ELSE LET r == copy(st, o[indx])
         IN copyFields(r.st, o, indx + 1, Append(acc, r.v))

\* A copy that stops at the first level: *vv = *v and nothing more.
copyShallow(st, a) ==
    [st |-> alloc(st, st.heap[a]), v |-> Len(st.heap) + 1]

copy(st, a) ==
    LET v  == st.heap[a]
        vv == Len(st.heap) + 1
        s1 == alloc(st, v)
        ro == copyFields(s1, v.o, 1, <<>>)
        re == IF v.e # 0 THEN copy(ro.st, v.e) ELSE [st |-> ro.st, v |-> 0]
    IN [st |-> [re.st EXCEPT !.heap[vv].o = ro.o, !.heap[vv].e = re.v],
        v  |-> vv]

\* ----------------------------------------------------------- Value.isFixed

\* The result of isFixed: the boolean it returns, or the panic it raises.
Fixed(b) == [panic |-> FALSE, fixed |-> b]

Panics == [panic |-> TRUE, fixed |-> FALSE]

RECURSIVE isFixed(_, _)
RECURSIVE isFixedFields(_, _, _)

\* The loop of isFixed over the fields of a container: it returns false at the
\* first field that is not fixed and true when there is none.
isFixedFields(heap, o, i) ==
    IF i > Len(o) THEN Fixed(TRUE)
    ELSE LET r == isFixed(heap, o[i])
         IN IF r.panic THEN Panics
            ELSE IF ~r.fixed THEN Fixed(FALSE)
            ELSE isFixedFields(heap, o, i + 1)

isFixed(heap, a) ==
    LET v == heap[a]
    IN CASE v.t \in {"uint", "bool"} -> Fixed(TRUE)
         [] v.t \in {"list", "bitlist"} -> Fixed(FALSE)
         [] v.t = "vector" -> IF v.e = 0 THEN Panics ELSE isFixed(heap, v.e)
         [] v.t = "bytes" -> Fixed(v.fixed)
         [] v.t = "container" -> isFixedFields(heap, v.o, 1)
         [] v.t = "reference" -> Fixed(v.s # 0)
         [] OTHER -> Panics

isBasicType(heap, a) == heap[a].t \in {"uint", "bool", "bytes"}

\* -------------------------------------------------------------------- tags

\* A field's struct tag, as the builder reads it: omit is ssz:"-", dims the
\* bound annotations, one per dimension: kind "vector" is an ssz-size entry
\* (a fixed length), kind "list" an ssz-max entry (a maximum), bitlist the
\* marker of a bit list.
NoTags == [omit |-> FALSE, dims |-> <<>>]

IsVector(dim) == dim.kind = "vector"

IsList(dim) == dim.kind = "list"

IsBitlist(dim) == dim.bitlist

VectorLen(dim) == dim.len

ListLen(dim) == dim.len

\* extractSSZDimensions is declared in another file of the package.  It hands
\* the annotations over one per dimension; whether a tag without any
\* annotation is an error there is not fixed by what is known of it, so both
\* behaviours are modelled, chosen by emptyDimsFail.
extractSSZDimensions(emptyDimsFail, tags) ==
    IF emptyDimsFail /\ tags.dims = <<>>
    THEN [dims |-> <<>>, err |-> <<"no ssz-size or ssz-max tag">>]
    ELSE [dims |-> tags.dims, err |-> <<>>]

\* getTagsInt(tags, "ssz-size"): the tag's text is one number only when there
\* is exactly one dimension and it is a fixed one ("32"); "?,32", "32,4" and a
\* missing tag do not convert (0, false).
getTagsIntSize(tags) ==
    IF Len(tags.dims) = 1 /\ IsVector(tags.dims[1])
    THEN [n |-> VectorLen(tags.dims[1]), ok |-> TRUE]
    ELSE [n |-> 0, ok |-> FALSE]

\* getTagsInt(tags, "ssz-max"), likewise.
getTagsIntMax(tags) ==
    IF Len(tags.dims) = 1 /\ IsList(tags.dims[1])
    THEN [n |-> ListLen(tags.dims[1]), ok |-> TRUE]
    ELSE [n |-> 0, ok |-> FALSE]

\* ------------------------------------------------------- type expressions

\* A type expression (ast.Expr).  lens holds the array levels, outer to inner
\* (ast.ArrayType nested through Elt), each with the kind of its Len: "slice"
\* (nil), "lit" (a number n), "badlit" (a literal that is no number), "expr"
\* (anything else, as in [N]T or [...]T).  kind, pkg and name give the innermost
\* expression: "ident" name, "star" *name, "starsel" *pkg.name, "starother"
\* a pointer to anything else, "sel" pkg.name, "other" any other expression.
Slice == [kind |-> "slice", n |-> 0]

Lit(n) == [kind |-> "lit", n |-> n]

Ident(name) == [lens |-> <<>>, kind |-> "ident", pkg |-> "", name |-> name]

Star(name) == [lens |-> <<>>, kind |-> "star", pkg |-> "", name |-> name]

StarSel(pkg, name) == [lens |-> <<>>, kind |-> "starsel", pkg |-> pkg, name |-> name]

Sel(pkg, name) == [lens |-> <<>>, kind |-> "sel", pkg |-> pkg, name |-> name]

Array(lens, elt) == [elt EXCEPT !.lens = lens]

\* The innermost element expression of an array expression.
Elt(expr) == [expr EXCEPT !.lens = <<>>]

\* The selector names with the prefix "Bitvector".
BitvectorNames == {"Bitvector4", "Bitvector64"}

\* ---------------------------------------------------------------- results

\* (v, nil) and (nil, err); an error is the chain of its messages, outermost
\* first, <<>> being nil.
Ok(st, v) == [st |-> st, v |-> v, err |-> <<>>]

Fail(st, msg) == [st |-> st, v |-> 0, err |-> msg]

\* A panic and the overflow of the stack end the process: no caller handles
\* them, so no caller rewrites them.
Fatal(err) == err # <<>> /\ err[1] \in {"panic", "stack overflow"}

\* fmt.Errorf(msg + ": %v", err).
Wrap(r, msg) == IF Fatal(r.err) THEN Fail(r.st, r.err) ELSE Fail(r.st, <<msg>> \o r.err)

\* fmt.Errorf(msg), the error of the callee dropped.
Replace(r, msg) == IF Fatal(r.err) THEN Fail(r.st, r.err) ELSE Fail(r.st, <<msg>>)

\* ------------------------------------------------------- getRawItemByName

RECURSIVE rawIndex(_, _, _)
rawIndex(raw, name, i) ==
    IF i > Len(raw) THEN 0
    ELSE IF raw[i].name = name THEN i
    ELSE rawIndex(raw, name, i + 1)

\* The index in raw of the first declaration called name, 0 when none is.
getRawItemByName(raw, name) == rawIndex(raw, name, 1)

\* ------------------------------------------- the check of a literal length

\* Lines 959-969, for the collection c of a dimension written with Len len.
checkArraySize(c, len) ==
    IF len.kind # "lit" THEN <<>>
    ELSE IF c.t # "vector" THEN <<"unexpected type for fixed size array">>
    ELSE IF c.s # len.n THEN <<"mismatch between ssz-size and array fixed size">>
    ELSE <<>>

\* ---------------------------------------------------------------- builder

\* The resolution state st threaded through the builder holds raw (e.raw),
\* objs (e.objs, name to address), heap, copies (the log of what encodeItem
\* returned: the name asked for, the tags of the use site, the address of the
\* copy) and emptyDimsFail.  d is the number of nested encodeItem calls the
\* stack still has room for.

RECURSIVE encodeItem(_, _, _, _)
RECURSIVE parseASTStructType(_, _, _, _)
RECURSIVE structFields(_, _, _, _, _)
RECURSIVE parseASTFieldType(_, _, _, _, _)
RECURSIVE arrayDims(_, _, _, _, _, _, _, _, _, _)

\* &Value{...}, nil
newValue(st, val) == Ok(alloc(st, val), Len(st.heap) + 1)

\* return v.copy(), nil
returnCopy(c, name, tags) ==
    Ok([c.st EXCEPT !.copies = Append(@, [name |-> name, tags |-> tags, v |-> c.v])],
       c.v)

\* The end of encodeItem for a name that was not in e.objs, r being what the
\* parsing of its declaration returned: the node is given its name, stored
\* in e.objs, and a copy of it is returned.
registerItem(r, name, tags) ==
    IF r.err # <<>> THEN Wrap(r, "failed to encode")
    ELSE IF r.v = 0 THEN Fail(r.st, <<"panic", "nil pointer dereference">>)
    ELSE returnCopy(copy([r.st EXCEPT !.heap[r.v].name = name,
                                      !.heap[r.v].obj = name,
                                      !.objs = (name :> r.v) @@ @],
                         r.v),
                    name, tags)

\* The node of a declaration that implements all the functions.
referenceValue(raw, tags) ==
    [ZeroValue EXCEPT !.t = "reference", !.s = getTagsIntSize(tags).n,
                      !.noPtr = ~raw.struct]

\* encodeItem for the declaration raw of a name that is not in e.objs.
encodeRawItem(st, raw, name, tags, d) ==
    registerItem(IF raw.implFunc THEN newValue(st, referenceValue(raw, tags))
                 ELSE IF raw.struct
                 THEN parseASTStructType(st, name, raw.fields, d - 1)
                 ELSE parseASTFieldType(st, name, tags, raw.typ, d - 1),
                 name, tags)

encodeItem(st, name, tags, d) ==
    IF name \in DOMAIN st.objs THEN returnCopy(copy(st, st.objs[name]), name, tags)
    ELSE IF d = 0 THEN Fail(st, <<"stack overflow">>)
    ELSE IF getRawItemByName(st.raw, name) = 0 THEN Fail(st, <<"could not find struct">>)
    ELSE encodeRawItem(st, st.raw[getRawItemByName(st.raw, name)], name, tags, d)

\* parse the Go AST struct
parseASTStructType(st, name, fields, d) ==
    structFields(alloc(st, [ZeroValue EXCEPT !.name = name, !.t = "container"]),
           Len(st.heap) + 1, fields, 1, d)

\* The end of one pass of the loop of parseASTStructType, r being what
\* parseASTFieldType returned for the field f: elem.name = name and
\* v.o = append(v.o, elem), unless elem is nil.
addField(r, v, f) ==
    IF r.v = 0 THEN r.st
    ELSE [r.st EXCEPT !.heap[r.v].name = f.name, !.heap[v].o = Append(@, r.v)]

structField(r, v, fields, i, d) ==
    IF r.err # <<>> THEN Fail(r.st, r.err)
    ELSE structFields(addField(r, v, fields[i]), v, fields, i + 1, d)

\* The loop of parseASTStructType over typ.Fields.List, from field i on.
structFields(st, v, fields, i, d) ==
    IF i > Len(fields) THEN Ok(st, v)
    ELSE IF fields[i].nnames # 1 \/ ~fields[i].exported \/ fields[i].xxx
    THEN structFields(st, v, fields, i + 1, d)
    ELSE structField(parseASTFieldType(st, fields[i].name, fields[i].tags, fields[i].typ, d),
                     v, fields, i, d)

\* The collection taking the kind of a list whatever dim is.
setDimAsList(c, dim) == [c EXCEPT !.t = "list", !.m = dim.len, !.s = dim.len]

\* Lines 933-941: the collection takes the kind and the length of dim.
setDim(c, dim) ==
    IF IsList(dim) THEN [c EXCEPT !.t = "list", !.m = ListLen(dim), !.s = ListLen(dim)]
    ELSE IF IsVector(dim) THEN [c EXCEPT !.t = "vector", !.s = VectorLen(dim)]
    ELSE c

\* Lines 959-961: collection.c is set for an array with a literal length.
setArray(c, len) == IF len.kind = "lit" THEN [c EXCEPT !.c = TRUE] ELSE c

\* Lines 982-994: an element type byte makes the collection a TypeBytes,
\* fixed for a vector dimension, or a TypeBitList.
setBytes(c, dim) ==
    [c EXCEPT !.t = IF IsBitlist(dim) THEN "bitlist" ELSE "bytes",
              !.fixed = IF IsVector(dim) THEN TRUE ELSE @]

\* The end of one pass of the loop over dims for an element that is no
\* array and no byte, r being what parseASTFieldType returned for it.
arrayElement(r, name, tags, expr, dims, i, outer, collection, p, d) ==
    IF r.err # <<>> THEN Fail(r.st, r.err)
    ELSE arrayDims([r.st EXCEPT !.heap[collection].e = r.v],
                             name, tags, expr, dims, i + 1, outer, collection, p, d)

\* One pass of the loop over dims once the collection has taken dims[i]:
\* the check of the literal length, then the switch on collectionExpr.Elt.
arrayElt(st, name, tags, expr, dims, i, outer, collection, p, d) ==
    IF expr.lens[p].kind = "expr"
    THEN Fail(st, <<"byte array definition not understood by go/ast">>)
    ELSE IF expr.lens[p].kind = "badlit"
    THEN Fail(st, <<"Could not parse array length">>)
    ELSE IF checkArraySize(st.heap[collection], expr.lens[p]) # <<>>
    THEN Fail(st, checkArraySize(st.heap[collection], expr.lens[p]))
    ELSE IF p < Len(expr.lens)
    THEN \* case *ast.ArrayType: a subsequent dimension is expected
         arrayDims([alloc(st, ZeroValue) EXCEPT
                                 !.heap[collection].e = Len(st.heap) + 1],
                             name, tags, expr, dims, i + 1, outer,
                             Len(st.heap) + 1, p + 1, d)
    ELSE IF expr.kind = "ident" /\ expr.name = "byte"
    THEN arrayDims([st EXCEPT !.heap[collection] = setBytes(@, dims[i])],
                             name, tags, expr, dims, i + 1, outer, collection, p, d)
    ELSE arrayElement(parseASTFieldType(st, name, tags, Elt(expr), d),
                      name, tags, expr, dims, i, outer, collection, p, d)

\* The loop of the ArrayType case over dims, from dims[i] on: outer is the
\* node returned, collection the node of the level being built, p the array
\* level of expr that collectionExpr stands at.
arrayDims(st, name, tags, expr, dims, i, outer, collection, p, d) ==
    IF i > Len(dims) THEN Ok(st, outer)
    ELSE arrayElt([st EXCEPT !.heap[collection] =
                                setArray(setDim(@, dims[i]), expr.lens[p])],
                  name, tags, expr, dims, i, outer, collection, p, d)

\* case *ast.ArrayType
parseArray(st, name, tags, expr, x, d) ==
    IF x.err # <<>> THEN Fail(st, x.err)
    ELSE arrayDims(alloc(st, ZeroValue), name, tags, expr, x.dims, 1,
                             Len(st.heap) + 1, Len(st.heap) + 1, 1, d)

\* v.ref = ref on the copy a use site *pkg.Name received.
setRef(r, ref) ==
    IF r.err # <<>> THEN Fail(r.st, r.err)
    ELSE Ok([r.st EXCEPT !.heap[r.v].ref = ref], r.v)

\* vv.ref = name; vv.noPtr = true on the copy a use site pkg.Name received.
setRefNoPtr(r, ref) ==
    IF r.err # <<>> THEN Fail(r.st, r.err)
    ELSE Ok([r.st EXCEPT !.heap[r.v].ref = ref, !.heap[r.v].noPtr = TRUE], r.v)

\* try to resolve as an alias
resolveAlias(r) == IF r.err # <<>> THEN Replace(r, "type not found") ELSE r

\* case *ast.Ident
parseIdent(st, tags, expr, d) ==
    CASE expr.name = "uint64" -> newValue(st, [ZeroValue EXCEPT !.t = "uint", !.s = 8])
      [] expr.name = "uint32" -> newValue(st, [ZeroValue EXCEPT !.t = "uint", !.s = 4])
      [] expr.name = "uint16" -> newValue(st, [ZeroValue EXCEPT !.t = "uint", !.s = 2])
      [] expr.name = "uint8" -> newValue(st, [ZeroValue EXCEPT !.t = "uint", !.s = 1])
      [] expr.name = "bool" -> newValue(st, [ZeroValue EXCEPT !.t = "bool", !.s = 1])
      [] OTHER -> resolveAlias(encodeItem(st, expr.name, tags, d))

\* go-bitfield/Bitlist
parseBitlist(st, max) ==
    IF ~max.ok THEN Fail(st, <<"bitlist does not have ssz-max tag">>)
    ELSE newValue(st, [ZeroValue EXCEPT !.t = "bitlist", !.m = max.n, !.s = max.n])

\* go-bitfield/Bitvector, fixed bytes
parseBitvector(st, x) ==
    IF x.err # <<>>
    THEN Fail(st, <<"failed to parse ssz-size tag for bitvector">> \o x.err)
    ELSE IF Len(x.dims) < 1
    THEN Fail(st, <<"did not find any ssz tags for the bitvector">>)
    ELSE IF ~IsVector(x.dims[Len(x.dims)])
    THEN Fail(st, <<"bitvector tag parse failed">>)
    ELSE newValue(st, [ZeroValue EXCEPT !.t = "bytes", !.fixed = TRUE,
                                        !.s = VectorLen(x.dims[Len(x.dims)])])

\* case *ast.SelectorExpr
parseSelector(st, tags, expr, d) ==
    IF expr.name = "Bitlist" THEN parseBitlist(st, getTagsIntMax(tags))
    ELSE IF expr.name \in BitvectorNames
    THEN parseBitvector(st, extractSSZDimensions(st.emptyDimsFail, tags))
    ELSE \* external reference
         setRefNoPtr(encodeItem(st, expr.name, tags, d), expr.pkg)

\* parse the Go AST field
parseASTFieldType(st, name, tags, expr, d) ==
    IF tags.omit THEN Ok(st, 0)
    ELSE IF expr.lens # <<>>
    THEN parseArray(st, name, tags, expr, extractSSZDimensions(st.emptyDimsFail, tags), d)
    ELSE CASE expr.kind = "star" -> encodeItem(st, expr.name, tags, d)
           [] expr.kind = "starsel" ->
                setRef(encodeItem(st, expr.name, tags, d), expr.pkg)
           [] expr.kind = "starother" -> Fail(st, <<"cannot handle">>)
           [] expr.kind = "ident" -> parseIdent(st, tags, expr, d)
           [] expr.kind = "sel" -> parseSelector(st, tags, expr, d)
           [] OTHER -> Fail(st, <<"panic", "ast type not expected">>)

\* ------------------------------------------------------------ decodeASTStruct

\* A parsed file (ast.File): pkg is its package name, imports its import
\* specs, decls its type declarations in order (kind "struct", "alias" or
\* "interface"), funcs its function declarations: recv the receiver's type
\* name ("" for a plain function), ptr whether the receiver is a pointer,
\* name the function's name, sig whether its parameters and results are
\* written exactly as the recognised signature of that name.

SSZMethods == {"SizeSSZ", "MarshalSSZTo", "UnmarshalSSZ", "HashTreeRootWith"}

isFuncDecl(funcDecl) == funcDecl.name \in SSZMethods /\ funcDecl.sig

\* funcRefs[objName] at the end of the loop over file.Decls.
funcRefs(file, objName) ==
    Cardinality({k \in 1..Len(file.funcs) :
                    /\ file.funcs[k].recv = objName
                    /\ file.funcs[k].recv # ""
                    /\ file.funcs[k].ptr
                    /\ isFuncDecl(file.funcs[k])})

\* The count that makes a type one that implements all the functions.
AllFuncs == 4

astStruct(decl, packName) ==
    [name |-> decl.name, packName |-> packName, struct |-> decl.kind = "struct",
     fields |-> decl.fields, typ |-> decl.typ, implFunc |-> FALSE, isRef |-> FALSE]

RECURSIVE declObjs(_, _, _)
declObjs(decls, packName, i) ==
    IF i > Len(decls) THEN <<>>
    ELSE IF decls[i].kind = "interface" THEN declObjs(decls, packName, i + 1)
    ELSE <<astStruct(decls[i], packName)>> \o declObjs(decls, packName, i + 1)

\* The declarations of one file, and the receivers that have AllFuncs
\* recognised functions in that file.
decodeASTStruct(file) ==
    [objs     |-> declObjs(file.decls, file.pkg, 1),
     funcs    |-> {file.funcs[k].recv : k \in {j \in 1..Len(file.funcs) :
                                    funcRefs(file, file.funcs[j].recv) = AllFuncs}},
     packName |-> file.pkg]

\* ----------------------------------------------------------------- generateIR

RECURSIVE rawIndexByPackage(_, _, _, _)
rawIndexByPackage(raw, packName, name, i) ==
    IF i > Len(raw) THEN 0
    ELSE IF raw[i].name = name /\ raw[i].packName = packName THEN i
    ELSE rawIndexByPackage(raw, packName, name, i + 1)

\* checkObjByPackage: the index in raw of the declaration called name in
\* package packName, 0 when there is none.
checkObjByPackage(raw, packName, name) == rawIndexByPackage(raw, packName, name, 1)

RECURSIVE addStructsFrom(_, _, _, _)
addStructsFrom(raw, objs, isRef, i) ==
    IF i > Len(objs) THEN [raw |-> raw, err |-> <<>>]
    ELSE IF checkObjByPackage(raw, objs[i].packName, objs[i].name) # 0
    THEN [raw |-> raw, err |-> <<"two structs share the same name">>]
    ELSE addStructsFrom(Append(raw, [objs[i] EXCEPT !.isRef = isRef]), objs, isRef, i + 1)

addStructs(raw, res, isRef) == addStructsFrom(raw, res.objs, isRef, 1)

\* checkImplFunc for one astResult: every name of res.funcs is marked in raw.
checkImplFunc(raw, res) ==
    IF \E name \in res.funcs : checkObjByPackage(raw, res.packName, name) = 0
    THEN [raw |-> raw, err |-> <<"cannot find struct">>]
    ELSE [raw |-> [i \in 1..Len(raw) |->
                     IF raw[i].packName = res.packName /\ raw[i].name \in res.funcs
                        /\ checkObjByPackage(raw, res.packName, raw[i].name) = i
                     THEN [raw[i] EXCEPT !.implFunc = TRUE] ELSE raw[i]],
          err |-> <<>>]

RECURSIVE checkImplFuncs(_, _, _)
checkImplFuncs(raw, astResults, i) ==
    IF i > Len(astResults) THEN [raw |-> raw, err |-> <<>>]
    ELSE LET r == checkImplFunc(raw, astResults[i])
         IN IF r.err # <<>> THEN r ELSE checkImplFuncs(r.raw, astResults, i + 1)

RECURSIVE addImportsFrom(_, _, _)
addImportsFrom(imports, new, i) ==
    IF i > Len(new) THEN [imports |-> imports, err |-> <<>>]
    ELSE IF \E j \in 1..Len(imports) :
               imports[j].path = new[i].path /\ imports[j].alias # new[i].alias
    THEN [imports |-> imports, err |-> <<"the same package is imported twice with different aliases">>]
    ELSE IF \E j \in 1..Len(imports) : imports[j].path = new[i].path
    THEN addImportsFrom(imports, new, i + 1)
    ELSE addImportsFrom(Append(imports, new[i]), new, i + 1)

addImports(imports, new) == addImportsFrom(imports, new, 1)

\* decodeASTImports: the imports of a file but the blank ones.
decodeASTImports(file) == SelectSeq(file.imports, LAMBDA i : i.alias # "_")

\* The loop over e.files that adds the imports, the files taken in the order
\* names.
RECURSIVE importsOf(_, _, _, _)
importsOf(fs, names, imports, i) ==
    IF i > Len(names) THEN [imports |-> imports, err |-> <<>>]
    ELSE LET r == addImports(imports, decodeASTImports(fs[names[i]]))
         IN IF r.err # <<>> THEN r ELSE importsOf(fs, names, r.imports, i + 1)

\* The environment before generateIR has read anything.
NewEnv(emptyDimsFail) ==
    [raw |-> <<>>, order |-> <<>>, astResults |-> <<>>, imports |-> <<>>,
     objs |-> <<>>, heap |-> <<>>, copies |-> <<>>, emptyDimsFail |-> emptyDimsFail]

RECURSIVE names(_, _)
names(objs, i) == IF i > Len(objs) THEN <<>> ELSE <<objs[i].name>> \o names(objs, i + 1)

\* One pass of the loops over e.files (isRef false) and e.include (isRef
\* true) of generateIR, for the file called name.
decodeFile(env, name, file, isRef) ==
    LET res == decodeASTStruct(file)
        a   == addStructs(env.raw, res, isRef)
    IN IF a.err # <<>> THEN [env |-> [env EXCEPT !.raw = a.raw], err |-> a.err]
       ELSE [env |-> [env EXCEPT !.raw = a.raw,
                                 !.astResults = Append(@, res),
                                 !.order = IF isRef THEN @
                                           ELSE (name :> names(res.objs, 1)) @@ @],
             err |-> <<>>]

\* The loop going on whatever encodeItem returned.
encodeFailedIgnored(err) == FALSE

\* What the loop over e.raw does with the error of encodeItem: return it.
encodeFailed(err) == err # <<>>

\* One pass of the loop over e.raw of generateIR, for e.raw[i].
encodeRaw(env, targets, i) ==
    LET obj   == env.raw[i]
        valid == IF Len(targets) = 0 THEN TRUE ELSE contains(obj.name, targets)
    IN IF ~valid \/ obj.isRef THEN [env |-> env, err |-> <<>>]
       ELSE LET r == encodeItem(env, obj.name, NoTags, MaxDepth)
            IN [env |-> r.st, err |-> r.err]

\* generateIR as a whole, the maps e.files and e.include yielding their files
\* in the orders srcOrder and incOrder: the result of the run of the actions
\* below that visits the files in these orders.
RECURSIVE decodeFiles(_, _, _, _, _)
decodeFiles(env, fs, order, i, isRef) ==
    IF i > Len(order) THEN [env |-> env, err |-> <<>>]
    ELSE IF decodeFile(env, order[i], fs[order[i]], isRef).err # <<>>
    THEN decodeFile(env, order[i], fs[order[i]], isRef)
    ELSE decodeFiles(decodeFile(env, order[i], fs[order[i]], isRef).env,
                     fs, order, i + 1, isRef)

RECURSIVE encodeAll(_, _, _)
encodeAll(env, tg, i) ==
    IF i > Len(env.raw) THEN [env |-> env, err |-> <<>>]
    ELSE IF encodeRaw(env, tg, i).err # <<>> THEN encodeRaw(env, tg, i)
    ELSE encodeAll(encodeRaw(env, tg, i).env, tg, i + 1)

markImplFuncs(r, tg) ==
    IF r.err # <<>> THEN r
    ELSE IF checkImplFuncs(r.env.raw, r.env.astResults, 1).err # <<>>
    THEN [env |-> r.env, err |-> checkImplFuncs(r.env.raw, r.env.astResults, 1).err]
    ELSE encodeAll([r.env EXCEPT !.raw = checkImplFuncs(@, r.env.astResults, 1).raw],
                   tg, 1)

decodeIncludes(r, inc, incOrder) ==
    IF r.err # <<>> THEN r ELSE decodeFiles(r.env, inc, incOrder, 1, TRUE)

generateIR(env, fs, inc, tg, srcOrder, incOrder) ==
    IF importsOf(fs, srcOrder, env.imports, 1).err # <<>>
    THEN [env |-> env, err |-> importsOf(fs, srcOrder, env.imports, 1).err]
    ELSE markImplFuncs(
             decodeIncludes(
                 decodeFiles([env EXCEPT !.imports = importsOf(fs, srcOrder, @, 1).imports],
                             fs, srcOrder, 1, FALSE),
                 inc, incOrder),
             tg)

\* ---------------------------------------------------------------------- print

\* The loop of print over order, from order[i] on: objs are the names for
\* which the four procedures have been printed so far.
RECURSIVE printFrom(_, _, _, _, _)
printFrom(env, order, excludeTypeNames, i, objs) ==
    IF i > Len(order) THEN [objs |-> objs, panic |-> FALSE]
    ELSE LET name == order[i]
         IN IF name \in excludeTypeNames \/ name \notin DOMAIN env.objs
            THEN printFrom(env, order, excludeTypeNames, i + 1, objs)
            ELSE LET fx == isFixed(env.heap, env.objs[name])
                 IN IF fx.panic THEN [objs |-> objs, panic |-> TRUE]
                    ELSE IF fx.fixed /\ isBasicType(env.heap, env.objs[name])
                    THEN printFrom(env, order, excludeTypeNames, i + 1, objs)
                    ELSE printFrom(env, order, excludeTypeNames, i + 1, Append(objs, name))

\* print: the names it printed procedures for, ok (false when there is none),
\* and whether isFixed panicked.
print(env, order, excludeTypeNames) ==
    LET r == printFrom(env, order, excludeTypeNames, 1, <<>>)
    IN [objs |-> r.objs, ok |-> Len(r.objs) # 0, panic |-> r.panic]

\* The file names there are, sorted as sort.Strings sorts them.
FileNames == <<"a.go", "b.go", "inc.go", "inc2.go">>

\* generateEncodings: one output per file of e.order that print is ok for;
\* the map it returns is never nil.
generateEncodings(env, excludeTypeNames) ==
    LET fs == DOMAIN env.order
        p(f) == print(env, env.order[f], excludeTypeNames)
    IN [nil   |-> FALSE,
        files |-> [f \in {g \in fs : p(g).ok} |-> p(f).objs],
        panic |-> \E f \in fs : p(f).panic]

RECURSIVE concatOrders(_, _, _)
concatOrders(order, keys, i) ==
    IF i > Len(keys) THEN <<>>
    ELSE order[keys[i]] \o concatOrders(order, keys, i + 1)

\* generateOutputEncodings: one output, named output, for the orders of all
\* the files, the files sorted by name; nil when print is not ok.
generateOutputEncodings(env, output, excludeTypeNames) ==
    LET keys == SelectSeq(FileNames, LAMBDA f : f \in DOMAIN env.order)
        r    == print(env, concatOrders(env.order, keys, 1), excludeTypeNames)
    IN [nil   |-> ~r.ok,
        files |-> IF r.ok THEN (output :> r.objs) ELSE <<>>,
        panic |-> r.panic]

\* ---------------------------------------------------------------------- codec
\*
\* The generated procedures (size, marshal, unmarshal, hashTreeRoot) over the
\* nodes of the type model.  A type is a tree: t the kind, s the width or the
\* length, m the maximum, fixed the flag of Bytes, o the element (one entry)
\* of a Vector or List, or the fields of a Container.  A value is a number
\* (Uint), a boolean (Bool), a sequence of bytes (Bytes), a sequence of
\* booleans (Bitlist), or a sequence of values (Vector, List, Container).

TUint(w) == [t |-> "uint", s |-> w, m |-> 0, fixed |-> TRUE, o |-> <<>>]

TBool == [t |-> "bool", s |-> 1, m |-> 0, fixed |-> TRUE, o |-> <<>>]

TBytes(n) == [t |-> "bytes", s |-> n, m |-> 0, fixed |-> TRUE, o |-> <<>>]

TBytesMax(n) == [t |-> "bytes", s |-> 0, m |-> n, fixed |-> FALSE, o |-> <<>>]

TBitlist(n) == [t |-> "bitlist", s |-> 0, m |-> n, fixed |-> FALSE, o |-> <<>>]

TVector(n, elt) == [t |-> "vector", s |-> n, m |-> 0, fixed |-> FALSE, o |-> <<elt>>]

TList(n, elt) == [t |-> "list", s |-> 0, m |-> n, fixed |-> FALSE, o |-> <<elt>>]

TContainer(fields) == [t |-> "container", s |-> 0, m |-> 0, fixed |-> FALSE, o |-> fields]

\* Wire format: the width of an offset and the size of a chunk, in bytes.
OffsetWidth == 4

ChunkSize == 32

RECURSIVE fixedType(_)

\* The classifier on a type tree: the table of isFixed.
fixedType(ty) ==
    CASE ty.t \in {"uint", "bool"} -> TRUE
      [] ty.t \in {"list", "bitlist"} -> FALSE
      [] ty.t = "vector" -> fixedType(ty.o[1])
      [] ty.t = "bytes" -> ty.fixed
      [] ty.t = "container" -> \A i \in 1..Len(ty.o) : fixedType(ty.o[i])

\* The element types of a collection of n elements, as a sequence of fields.
elements(ty, n) == [i \in 1..n |-> ty.o[1]]

RECURSIVE width(_)
RECURSIVE widths(_, _)

\* The sum of the widths of the fields from i on.
widths(tys, i) ==
    IF i > Len(tys) THEN 0 ELSE width(tys[i]) + widths(tys, i + 1)

\* The structural constant of a fixed type: its encoded byte length.
width(ty) ==
    CASE ty.t \in {"uint", "bool", "bytes"} -> ty.s
      [] ty.t = "vector" -> ty.s * width(ty.o[1])
      [] ty.t = "container" -> widths(ty.o, 1)
      [] OTHER -> 0

\* The bytes a field takes in the fixed region: its own, or an offset slot.
slot(ty) == IF fixedType(ty) THEN width(ty) ELSE OffsetWidth

RECURSIVE slots(_, _)

\* The length of the fixed region of the fields before field i.
slots(tys, i) ==
    IF i <= 1 THEN 0 ELSE slots(tys, i - 1) + slot(tys[i - 1])

RECURSIVE fits(_, _)

\* n is a number of w bytes.
fits(n, w) == IF w = 0 THEN n = 0 ELSE fits(n \div 256, w - 1)

RECURSIVE wellTyped(_, _)

\* val is a value of the type, within the declared bounds.
wellTyped(ty, val) ==
    CASE ty.t = "uint" -> val \in Nat /\ fits(val, ty.s)
      [] ty.t = "bool" -> val \in BOOLEAN
      [] ty.t = "bytes" -> IF ty.fixed THEN Len(val) = ty.s ELSE Len(val) <= ty.m
      [] ty.t = "bitlist" -> Len(val) <= ty.m
      [] ty.t = "vector" -> /\ Len(val) = ty.s
                            /\ \A i \in 1..Len(val) : wellTyped(ty.o[1], val[i])
      [] ty.t = "list" -> /\ Len(val) <= ty.m
                          /\ \A i \in 1..Len(val) : wellTyped(ty.o[1], val[i])
      [] ty.t = "container" -> /\ Len(val) = Len(ty.o)
                               /\ \A i \in 1..Len(val) : wellTyped(ty.o[i], val[i])

RECURSIVE littleEndian(_, _)

\* The bytes of n on w bytes, little-endian, and the number they spell.
littleEndian(n, w) ==
    IF w = 0 THEN <<>> ELSE <<n % 256>> \o littleEndian(n \div 256, w - 1)

RECURSIVE fromLittleEndian(_)
fromLittleEndian(b) ==
    IF b = <<>> THEN 0 ELSE b[1] + 256 * fromLittleEndian(Tail(b))

\* Bits packed low-to-high within bytes.
bitAt(bits, k) == IF k <= Len(bits) /\ bits[k] THEN 1 ELSE 0

packBits(bits) ==
    [j \in 1..((Len(bits) + 7) \div 8) |->
        bitAt(bits, 8 * j - 7) + 2 * bitAt(bits, 8 * j - 6)
        + 4 * bitAt(bits, 8 * j - 5) + 8 * bitAt(bits, 8 * j - 4)
        + 16 * bitAt(bits, 8 * j - 3) + 32 * bitAt(bits, 8 * j - 2)
        + 64 * bitAt(bits, 8 * j - 1) + 128 * bitAt(bits, 8 * j)]

unpackBits(b) ==
    [k \in 1..(8 * Len(b)) |-> (b[(k + 7) \div 8] \div (2 ^ ((k - 1) % 8))) % 2 = 1]

RECURSIVE bytesOf(_, _)
RECURSIVE layout(_, _, _, _, _, _)
RECURSIVE put(_, _, _, _, _, _, _)

\* The two-pass layout of fields (or elements): the fixed fields and the
\* offsets of the variable ones in head, the variable fields' bytes in tail;
\* off is where the next variable field lands.
layout(tys, vals, i, off, head, tail) ==
    IF i > Len(tys) THEN head \o tail
    ELSE put(tys, vals, i, off, head, tail, bytesOf(tys[i], vals[i]))

\* Field i, of encoding b, takes its place in the layout.
put(tys, vals, i, off, head, tail, b) ==
    IF fixedType(tys[i])
    THEN layout(tys, vals, i + 1, off, head \o b, tail)
    ELSE layout(tys, vals, i + 1, off + Len(b),
                head \o littleEndian(off, OffsetWidth), tail \o b)

\* The encoding of a well-typed value.
bytesOf(ty, val) ==
    CASE ty.t = "uint" -> littleEndian(val, ty.s)
      [] ty.t = "bool" -> <<IF val THEN 1 ELSE 0>>
      [] ty.t = "bytes" -> val
      [] ty.t = "bitlist" -> packBits(Append(val, TRUE))
      [] ty.t \in {"vector", "list"} ->
            layout(elements(ty, Len(val)), val, 1,
                   slots(elements(ty, Len(val)), Len(val) + 1), <<>>, <<>>)
      [] ty.t = "container" ->
            layout(ty.o, val, 1, slots(ty.o, Len(ty.o) + 1), <<>>, <<>>)

EncodeError == [ok |-> FALSE, b |-> <<>>]

\* marshal: the encoding, or an EncodeError when a bound is not kept.
marshal(ty, val) ==
    IF wellTyped(ty, val) THEN [ok |-> TRUE, b |-> bytesOf(ty, val)] ELSE EncodeError

DecodeError == [ok |-> FALSE, val |-> <<>>]

Decoded(val) == [ok |-> TRUE, val |-> <<val>>]

\* The offset stored in the slot of field i.
offsetOf(tys, buf, i) ==
    fromLittleEndian(SubSeq(buf, slots(tys, i) + 1, slots(tys, i) + OffsetWidth))

RECURSIVE endOf(_, _, _)

\* Where the bytes of the variable field i end: at the offset of the next
\* variable field, or at the end of the buffer.
endOf(tys, buf, i) ==
    IF i >= Len(tys) THEN Len(buf)
    ELSE IF fixedType(tys[i + 1]) THEN endOf(tys, buf, i + 1)
    ELSE offsetOf(tys, buf, i + 1)

\* The byte range of field i.
rangeOf(tys, buf, i) ==
    IF fixedType(tys[i])
    THEN SubSeq(buf, slots(tys, i) + 1, slots(tys, i) + width(tys[i]))
    ELSE SubSeq(buf, offsetOf(tys, buf, i) + 1, endOf(tys, buf, i))

\* The offsets are non-decreasing and within the buffer.
offsetsValid(tys, buf) ==
    \A i \in 1..Len(tys) :
       ~fixedType(tys[i]) =>
           /\ offsetOf(tys, buf, i) <= endOf(tys, buf, i)
           /\ endOf(tys, buf, i) <= Len(buf)

\* The number of elements a buffer implies for a List, -1 when it implies
\* none: the buffer's length over the element's width, or the offset slots
\* that fit before the first element's bytes.
impliedCount(ty, buf) ==
    IF fixedType(ty.o[1])
    THEN IF width(ty.o[1]) = 0 THEN (IF buf = <<>> THEN 0 ELSE -1)
         ELSE IF Len(buf) % width(ty.o[1]) # 0 THEN -1
         ELSE Len(buf) \div width(ty.o[1])
    ELSE IF buf = <<>> THEN 0
         ELSE IF Len(buf) < OffsetWidth THEN -1
         ELSE IF fromLittleEndian(SubSeq(buf, 1, OffsetWidth)) % OffsetWidth # 0 THEN -1
         ELSE IF fromLittleEndian(SubSeq(buf, 1, OffsetWidth)) > Len(buf) THEN -1
         ELSE fromLittleEndian(SubSeq(buf, 1, OffsetWidth)) \div OffsetWidth

\* The last set bit of a byte that is not zero: the sentinel's place, from 0.
RECURSIVE sentinel(_, _)
sentinel(byte, i) ==
    IF (byte \div (2 ^ i)) % 2 = 1 THEN i ELSE sentinel(byte, i - 1)

RECURSIVE unmarshal(_, _)
RECURSIVE fieldsOf(_, _)
RECURSIVE collect(_, _, _, _)
RECURSIVE gather(_, _, _, _, _)

\* The fields (or elements) read from their byte ranges, one after the
\* other; the first failure is the failure of the whole.
collect(tys, buf, i, acc) ==
    IF i > Len(tys) THEN Decoded(acc)
    ELSE gather(tys, buf, i, acc, unmarshal(tys[i], rangeOf(tys, buf, i)))

gather(tys, buf, i, acc, r) ==
    IF ~r.ok THEN DecodeError ELSE collect(tys, buf, i + 1, acc \o r.val)

\* The fields of a buffer: truncated buffers and offsets out of order or
\* out of bounds are failures.
fieldsOf(tys, buf) ==
    IF Len(buf) < slots(tys, Len(tys) + 1) THEN DecodeError
    ELSE IF ~offsetsValid(tys, buf) THEN DecodeError
    ELSE collect(tys, buf, 1, <<>>)

\* unmarshal: the value of a buffer, or a DecodeError.
unmarshal(ty, buf) ==
    CASE ty.t = "uint" ->
            IF Len(buf) # ty.s THEN DecodeError ELSE Decoded(fromLittleEndian(buf))
      [] ty.t = "bool" ->
            IF Len(buf) # 1 \/ buf[1] \notin {0, 1} THEN DecodeError
            ELSE Decoded(buf[1] = 1)
      [] ty.t = "bytes" ->
            IF ty.fixed /\ Len(buf) # ty.s THEN DecodeError
            ELSE IF ~ty.fixed /\ Len(buf) > ty.m THEN DecodeError
            ELSE Decoded(buf)
      [] ty.t = "bitlist" ->
            IF buf = <<>> \/ Len(buf) > (ty.m + 8) \div 8 THEN DecodeError
            ELSE IF buf[Len(buf)] = 0 THEN DecodeError
            ELSE IF 8 * (Len(buf) - 1) + sentinel(buf[Len(buf)], 7) > ty.m THEN DecodeError
            ELSE Decoded(SubSeq(unpackBits(buf), 1,
                                8 * (Len(buf) - 1) + sentinel(buf[Len(buf)], 7)))
      [] ty.t = "vector" -> fieldsOf(elements(ty, ty.s), buf)
      [] ty.t = "list" ->
            IF impliedCount(ty, buf) < 0 \/ impliedCount(ty, buf) > ty.m THEN DecodeError
            ELSE fieldsOf(elements(ty, impliedCount(ty, buf)), buf)
      [] ty.t = "container" -> fieldsOf(ty.o, buf)

\* The hash function, taken as collision-free: the hash of two chunks is the
\* pair itself, and no chunk of data is the hash of anything.
hash(a, b) == <<"hash", a, b>>

\* A chunk of data: b and the zeros that fill the chunk.
chunk(b) == <<"data", [i \in 1..ChunkSize |-> IF i <= Len(b) THEN b[i] ELSE 0]>>

zeroChunk == chunk(<<>>)

\* Bytes split into chunks, the last partial chunk filled with zeros.
pack(b) ==
    [j \in 1..((Len(b) + ChunkSize - 1) \div ChunkSize) |->
        chunk(SubSeq(b, ChunkSize * (j - 1) + 1, Min(Len(b), ChunkSize * j)))]

RECURSIVE nextPowerOfTwo(_, _)

\* The least power of two that is at least n, from p on.
nextPowerOfTwo(n, p) == IF p >= n THEN p ELSE nextPowerOfTwo(n, 2 * p)

\* The chunks, and zero chunks up to n of them.
padTo(cs, n) == [i \in 1..(IF n > Len(cs) THEN n ELSE Len(cs)) |->
                    IF i <= Len(cs) THEN cs[i] ELSE zeroChunk]

RECURSIVE pairUp(_)

\* Adjacent chunks hashed in pairs until one root remains; the number of
\* chunks is a power of two.
pairUp(cs) ==
    IF Len(cs) = 1 THEN cs[1]
    ELSE pairUp([i \in 1..(Len(cs) \div 2) |-> hash(cs[2 * i - 1], cs[2 * i])])

\* The root of the chunks padded to the next power of two of the actual
\* count, whatever the limit.
merkleizeActual(cs, limit) == pairUp(padTo(cs, nextPowerOfTwo(Len(cs), 1)))

\* The root of the chunks padded to limit chunks and then to the next power
\* of two.
merkleize(cs, limit) == pairUp(padTo(cs, nextPowerOfTwo(IF limit > Len(cs) THEN limit ELSE Len(cs), 1)))

\* The root combined with the actual length.
mixInLength(r, n) == hash(r, chunk(littleEndian(n, 4)))

\* The elements whose raw encodings are packed into chunks.
packed(ty) == ty.t \in {"uint", "bool"} \/ (ty.t = "bytes" /\ ty.fixed)

\* The capacity in chunks that the maximum of a List or Bitlist implies.
capacity(ty) ==
    CASE ty.t = "bitlist" -> (ty.m + 8 * ChunkSize - 1) \div (8 * ChunkSize)
      [] ty.t = "bytes" -> (ty.m + ChunkSize - 1) \div ChunkSize
      [] ty.t = "list" ->
            IF packed(ty.o[1])
            THEN (ty.m * width(ty.o[1]) + ChunkSize - 1) \div ChunkSize
            ELSE ty.m

RECURSIVE hashTreeRoot(_, _)

\* The chunks of the elements of a collection: the packed encodings, or
\* one root for each element.
chunksOf(tys, vals) ==
    IF tys # <<>> /\ \A i \in 1..Len(tys) : packed(tys[i])
    THEN pack(layout(tys, vals, 1, 0, <<>>, <<>>))
    ELSE [i \in 1..Len(tys) |-> hashTreeRoot(tys[i], vals[i])]

\* hashTreeRoot: the root of a value.
hashTreeRoot(ty, val) ==
    CASE ty.t \in {"uint", "bool"} -> chunk(bytesOf(ty, val))
      [] ty.t = "bytes" ->
            IF ty.fixed THEN merkleize(pack(val), 0)
            ELSE mixInLength(merkleize(pack(val), capacity(ty)), Len(val))
      [] ty.t = "bitlist" ->
            mixInLength(merkleize(pack(packBits(val)), capacity(ty)), Len(val))
      [] ty.t = "vector" ->
            merkleize(chunksOf(elements(ty, Len(val)), val), 0)
      [] ty.t = "list" ->
            mixInLength(merkleize(chunksOf(elements(ty, Len(val)), val), capacity(ty)),
                        Len(val))
      [] ty.t = "container" ->
            merkleize([i \in 1..Len(ty.o) |-> hashTreeRoot(ty.o[i], val[i])], 0)

\* ---------------------------------------------------------------------- state

VARIABLES
    files,            \* the parsed files of the source path: name to file
    include,          \* the parsed files of the include paths
    targets,          \* the names asked for with -objs
    excludeTypeNames, \* the names given with -exclude-objs
    output,           \* the path given with -output, "" when none
    pendingFiles,     \* the files the loop over e.files has yet to visit
    pendingInclude,   \* the files the loop over e.include has yet to visit
    e,                \* the env, with the heap its Values live in
    idx,              \* the position of the loop over e.raw
    pc,               \* where encode stands
    err,              \* the error encode returned, <<>> when none
    out,              \* the generated encodings
    written,          \* the files written
    codecType,        \* the type a generated procedure is run on
    value,            \* the value it is run on
    encoded,          \* what marshal returned
    decoded,          \* what unmarshal returned
    root,             \* what hashTreeRoot returned
    otherType,        \* a List type of another maximum
    otherRoot,        \* the root of the same elements under it
    step              \* where the run of the procedures stands

buildVars == <<files, include, targets, excludeTypeNames, output, pendingFiles,
               pendingInclude, e, idx, pc, err, out, written>>

codecVars == <<codecType, value, encoded, decoded, root, otherType, otherRoot, step>>

vars == <<buildVars, codecVars>>

inputs == <<files, include, targets, excludeTypeNames, output>>

NoOut == [nil |-> TRUE, files |-> <<>>, panic |-> FALSE]

\* --------------------------------------------------------------------- actions

\* generateIR: decode all the imports from the input files.
DecodeImports ==
    /\ pc = "imports"
    /\ LET r == importsOf(files, SelectSeq(FileNames, LAMBDA f : f \in DOMAIN files),
                          e.imports, 1)
       IN /\ e' = [e EXCEPT !.imports = r.imports]
          /\ err' = r.err
          /\ pc' = IF r.err # <<>> THEN "failed" ELSE "files"
    /\ UNCHANGED <<inputs, pendingFiles, pendingInclude, idx, out, written, codecVars>>

\* generateIR: decode the structs of one file of the input path; the files
\* come in the order the map e.files yields them, which is any order.
DecodeSourceFile(f) ==
    /\ pc = "files"
    /\ f \in pendingFiles
    /\ LET r == decodeFile(e, f, files[f], FALSE)
       IN /\ e' = r.env
          /\ err' = r.err
          /\ pc' = IF r.err # <<>> THEN "failed" ELSE "files"
    /\ pendingFiles' = pendingFiles \ {f}
    /\ UNCHANGED <<inputs, pendingInclude, idx, out, written, codecVars>>

\* generateIR: decode the structs of one file of the include path, once the
\* files of the input path are done.
DecodeIncludeFile(f) ==
    /\ pc = "files"
    /\ pendingFiles = {}
    /\ f \in pendingInclude
    /\ LET r == decodeFile(e, f, include[f], TRUE)
       IN /\ e' = r.env
          /\ err' = r.err
          /\ pc' = IF r.err # <<>> THEN "failed" ELSE "files"
    /\ pendingInclude' = pendingInclude \ {f}
    /\ UNCHANGED <<inputs, pendingFiles, idx, out, written, codecVars>>

\* generateIR: mark the declarations that implement all the functions.
CheckImplFunc ==
    /\ pc = "files"
    /\ pendingFiles = {}
    /\ pendingInclude = {}
    /\ LET r == checkImplFuncs(e.raw, e.astResults, 1)
       IN /\ e' = [e EXCEPT !.raw = r.raw]
          /\ err' = r.err
          /\ pc' = IF r.err # <<>> THEN "failed" ELSE "encode"
    /\ idx' = 1
    /\ UNCHANGED <<inputs, pendingFiles, pendingInclude, out, written, codecVars>>

\* generateIR: one pass of the loop over e.raw.  A panic or an overflow of
\* the stack ends the process.
EncodeNext ==
    /\ pc = "encode"
    /\ idx <= Len(e.raw)
    /\ LET r == encodeRaw(e, targets, idx)
       IN /\ e' = r.env
          /\ err' = IF r.err # <<>> THEN r.err ELSE err
          /\ pc' = IF Fatal(r.err) THEN "crashed"
                   ELSE IF encodeFailed(r.err) THEN "failed"
                   ELSE "encode"
    /\ idx' = idx + 1
    /\ UNCHANGED <<inputs, pendingFiles, pendingInclude, out, written, codecVars>>

\* encode, step 3: generateIR has returned nil; the encodings are generated.
\* A panic of isFixed, and the panic of encode when there is nothing to
\* generate, end the process.
Generate ==
    /\ pc = "encode"
    /\ idx > Len(e.raw)
    /\ LET r == IF output = "" THEN generateEncodings(e, excludeTypeNames)
                ELSE generateOutputEncodings(e, output, excludeTypeNames)
       IN IF r.panic \/ r.nil
          THEN /\ pc' = "crashed"
               /\ out' = out
          ELSE /\ pc' = "generated"
               /\ out' = r
    /\ UNCHANGED <<inputs, pendingFiles, pendingInclude, e, idx, err, written, codecVars>>

\* encode: the generated files are written.
WriteFiles ==
    /\ pc = "generated"
    /\ written' = out.files
    /\ pc' = "done"
    /\ UNCHANGED <<inputs, pendingFiles, pendingInclude, e, idx, err, out, codecVars>>

Next ==
    \/ DecodeImports
    \/ \E f \in DOMAIN files : DecodeSourceFile(f)
    \/ \E f \in DOMAIN include : DecodeIncludeFile(f)
    \/ CheckImplFunc
    \/ EncodeNext
    \/ Generate
    \/ WriteFiles

\* --------------------------------------------------------------------- schemas

\* The largest number of array levels of a field's type expression, and the
\* largest number of bound annotations of a field, in the schemas explored.
MaxRank == 2

MaxDims == 2

Vec(n) == [kind |-> "vector", len |-> n, bitlist |-> FALSE]

Max(n) == [kind |-> "list", len |-> n, bitlist |-> FALSE]

BitMax(n) == [kind |-> "list", len |-> n, bitlist |-> TRUE]

Tags(dims) == [omit |-> FALSE, dims |-> dims]

Omit == [omit |-> TRUE, dims |-> <<>>]

Field(name, tags, typ) ==
    [nnames |-> 1, name |-> name, exported |-> TRUE, xxx |-> FALSE,
     tags |-> tags, typ |-> typ]

Other == [lens |-> <<>>, kind |-> "other", pkg |-> "", name |-> ""]

\* Fields the builder passes over: an embedded field, a field that is not
\* exported, a protobuf field.
Embedded == [Field("", NoTags, Other) EXCEPT !.nnames = 0]

Unexported == [Field("y", NoTags, Other) EXCEPT !.exported = FALSE]

Protobuf == [Field("XXX_sizecache", NoTags, Other) EXCEPT !.xxx = TRUE]

Struct(name, fields) ==
    [name |-> name, kind |-> "struct", fields |-> fields, typ |-> Other]

Alias(name, typ) ==
    [name |-> name, kind |-> "alias", fields |-> <<>>, typ |-> typ]

Interface(name) ==
    [name |-> name, kind |-> "interface", fields |-> <<>>, typ |-> Other]

File(pkg, imports, decls, funcs) ==
    [pkg |-> pkg, imports |-> imports, decls |-> decls, funcs |-> funcs]

Method(recv, name) == [recv |-> recv, ptr |-> TRUE, name |-> name, sig |-> TRUE]

Methods(recv, ms) == [i \in 1..Len(ms) |-> Method(recv, ms[i])]

Uint64 == Ident("uint64")

Byte == Ident("byte")

Config(fs, inc, tg, ex, o, edf) ==
    [files |-> fs, include |-> inc, targets |-> tg, excludeTypeNames |-> ex,
     output |-> o, emptyDimsFail |-> edf]

\* The sequences over S of the lengths lo..hi.
SeqsOf(S, lo, hi) == UNION {[1..n -> S] : n \in lo..hi}

\* Use sites of a named type R whose four functions are declared here or
\* there: A.X and B.Z refer to R with bounds of their own, B.W refers to A.
RefPlacements == {"typefile", "otherfile", "split", "three", "none", "badsig", "value"}

RefFuncs(place, file) ==
    LET all == <<"SizeSSZ", "MarshalSSZTo", "UnmarshalSSZ", "HashTreeRootWith">>
    IN CASE place = "typefile" -> IF file = "b.go" THEN Methods("R", all) ELSE <<>>
         [] place = "otherfile" -> IF file = "a.go" THEN Methods("R", all) ELSE <<>>
         [] place = "split" -> IF file = "a.go" THEN Methods("R", SubSeq(all, 1, 2))
                               ELSE Methods("R", SubSeq(all, 3, 4))
         [] place = "three" -> IF file = "b.go" THEN Methods("R", SubSeq(all, 1, 3))
                               ELSE <<>>
         [] place = "badsig" -> IF file = "b.go"
                                THEN [Methods("R", all) EXCEPT ![4].sig = FALSE]
                                ELSE <<>>
         [] place = "value" -> IF file = "b.go"
                               THEN [Methods("R", all) EXCEPT ![1].ptr = FALSE]
                               ELSE <<[recv |-> "", ptr |-> FALSE, name |-> "SizeSSZ", sig |-> TRUE]>>
         [] OTHER -> <<>>

RefSchema(place, tagX, tagZ) ==
    [files |->
        ("a.go" :> File("main", <<>>,
                        <<Struct("A", <<Field("X", tagX, Star("R")),
                                        Field("Y", NoTags, Uint64),
                                        Embedded, Unexported, Protobuf>>),
                          Struct("B", <<Field("Z", tagZ, Star("R")),
                                        Field("W", NoTags, Star("A"))>>)>>,
                        RefFuncs(place, "a.go"))) @@
        ("b.go" :> File("main", <<>>,
                        <<Struct("R", <<Field("F", NoTags, Uint64),
                                        Field("G", Tags(<<Max(4)>>), Array(<<Slice>>, Byte))>>),
                          Interface("I")>>,
                        RefFuncs(place, "b.go"))),
     include |-> <<>>]

RefConfigs ==
    {Config(sc.files, sc.include, tg, ex, o, FALSE) :
        sc \in {RefSchema(place, tagX, tagZ) :
                  place \in RefPlacements,
                  tagX \in {NoTags, Tags(<<Vec(32)>>)},
                  tagZ \in {NoTags, Tags(<<Vec(32)>>), Tags(<<Vec(48)>>)}},
        tg \in {<<>>},
        ex \in {{}, {"B"}},
        o \in {"", "out.go"}}

\* A struct S with one field V of an array type, of every shape up to MaxRank
\* levels, with every list of up to MaxDims annotations; E is a struct the element
\* may point to.
ArrayLens == SeqsOf({Slice, Lit(2)}, 1, MaxRank)

ArrayDims == SeqsOf({Vec(2), Vec(3), Max(3), BitMax(3)}, 0, MaxDims)

ArrayElts == {Byte, Uint64, Ident("uint8"), Star("E")}

ArraySchema(lens, dims, elt) ==
    [files |->
        ("a.go" :> File("main", <<>>,
                        <<Struct("S", <<Field("V", Tags(dims), Array(lens, elt))>>),
                          Struct("E", <<Field("F", NoTags, Uint64)>>)>>,
                        <<>>)),
     include |-> <<>>]

ArrayConfigs ==
    {Config(sc.files, sc.include, <<>>, {}, "", edf) :
        sc \in {ArraySchema(lens, dims, elt) :
                  lens \in ArrayLens, dims \in ArrayDims, elt \in ArrayElts}
               \cup {ArraySchema(<<[kind |-> k, n |-> 0]>>, <<Vec(2)>>, Byte) :
                       k \in {"expr", "badlit"}},
        edf \in BOOLEAN}

\* A type name T declared in several places: in the source package (a.go as a
\* struct, b.go as an alias) and in included packages (inc.go, package ext,
\* with or without the four functions; inc2.go, package ext or ext2).  A
\* refers to ext.T.
AllSSZ == <<"SizeSSZ", "MarshalSSZTo", "UnmarshalSSZ", "HashTreeRootWith">>

DupSchema(localT, bT, incT, inc2) ==
    [files |->
        ("a.go" :> File("main", <<>>,
                        <<Struct("A", <<Field("X", NoTags, Sel("ext", "T")),
                                        Field("P", NoTags, StarSel("ext", "T"))>>)>>
                        \o (IF localT THEN <<Struct("T", <<Field("F", NoTags, Uint64)>>)>>
                            ELSE <<>>),
                        <<>>)) @@
        ("b.go" :> File("main", <<>>,
                        IF bT THEN <<Alias("T", Ident("uint32"))>>
                        ELSE <<Alias("U", Ident("uint16"))>>,
                        <<>>)),
     include |->
        ("inc.go" :> File("ext", <<>>,
                          IF incT = "none" THEN <<Struct("V", <<>>)>>
                          ELSE <<Struct("T", <<Field("G", NoTags, Ident("bool"))>>)>>,
                          IF incT = "impl" THEN Methods("T", AllSSZ) ELSE <<>>)) @@
        (IF inc2 = "none" THEN <<>>
         ELSE ("inc2.go" :> File(inc2, <<>>,
                                 <<Struct("T", <<Field("H", Tags(<<Max(4)>>),
                                                       Array(<<Slice>>, Byte))>>)>>,
                                 <<>>)))]

DupConfigs ==
    {Config(sc.files, sc.include, <<>>, {}, "", FALSE) :
        sc \in {DupSchema(localT, bT, incT, inc2) :
                  localT \in BOOLEAN, bT \in BOOLEAN,
                  incT \in {"none", "struct", "impl"},
                  inc2 \in {"none", "ext", "ext2"}}}

\* Two use sites, A.X and A.Y, of an alias H with bounds of their own; H is
\* declared in the source package or in an included file; N is an alias of a
\* basic type.
AliasTypes ==
    {Array(<<Slice>>, Byte), Array(<<Lit(2)>>, Byte), Array(<<Slice>>, Uint64), Ident("N")}

AliasTags == {Tags(<<Vec(2)>>), Tags(<<Max(3)>>), Tags(<<Max(5)>>)}

AliasSchema(where, typ, tagX, tagY) ==
    [files |->
        ("a.go" :> File("main", <<>>,
                        <<Struct("A", <<Field("X", tagX, Ident("H")),
                                        Field("Y", tagY, Ident("H"))>>)>>,
                        <<>>)) @@
        ("b.go" :> File("main", <<>>,
                        (IF where = "source" THEN <<Alias("H", typ)>> ELSE <<>>)
                        \o <<Alias("N", Uint64)>>,
                        <<>>)),
     include |->
        IF where = "include" THEN ("inc.go" :> File("main", <<>>, <<Alias("H", typ)>>, <<>>))
        ELSE <<>>]

AliasConfigs ==
    {Config(sc.files, sc.include, <<>>, {}, o, edf) :
        sc \in {AliasSchema(where, typ, tagX, tagY) :
                  where \in {"source", "include"}, typ \in AliasTypes,
                  tagX \in AliasTags, tagY \in AliasTags},
        o \in {"", "out.go"},
        edf \in BOOLEAN}

\* Schemas that fail to build, or build with a field left out: B.Y is a field
\* the builder may reject; the files import a package under one alias or
\* two; b.go may declare the four functions of a type that is not declared.
BadFields ==
    {Field("Y", NoTags, Star("Missing")),
     Field("Y", NoTags, Ident("Missing")),
     Field("Y", NoTags, Byte),
     Field("Y", NoTags, [Other EXCEPT !.kind = "starother"]),
     Field("Y", NoTags, Other),
     Field("Y", Omit, Other),
     Field("Y", NoTags, Sel("bitfield", "Bitlist")),
     Field("Y", Tags(<<Max(8)>>), Sel("bitfield", "Bitlist")),
     Field("Y", NoTags, Sel("bitfield", "Bitvector4")),
     Field("Y", Tags(<<Max(4)>>), Sel("bitfield", "Bitvector4")),
     Field("Y", Tags(<<Vec(4)>>), Sel("bitfield", "Bitvector4")),
     Field("Y", Tags(<<Vec(2)>>), Array(<<Lit(3)>>, Byte))}

ErrSchema(bad, alias, ghost) ==
    [files |->
        ("a.go" :> File("main",
                        <<[alias |-> "x", path |-> "p"], [alias |-> "_", path |-> "q"]>>,
                        <<Struct("A", <<Field("X", NoTags, Uint64)>>),
                          Struct("B", <<bad>>),
                          Struct("C", <<Field("Z", NoTags, Star("A"))>>)>>,
                        <<>>)) @@
        ("b.go" :> File("main",
                        <<[alias |-> alias, path |-> "p"]>>,
                        <<Alias("D", Ident("bool"))>>,
                        IF ghost THEN Methods("Ghost", AllSSZ) ELSE <<>>)),
     include |-> <<>>]

ErrConfigs ==
    {Config(sc.files, sc.include, tg, {}, "", edf) :
        sc \in {ErrSchema(bad, alias, ghost) :
                  bad \in BadFields, alias \in {"x", "y"}, ghost \in BOOLEAN},
        tg \in {<<>>, <<"C">>},
        edf \in {FALSE}}

\* Named types that refer to one another: A to itself through a pointer
\* field or through the element of a list, A and B to each other, or A to B
\* only; A with or without the four functions of its own.
RecKinds == {"self", "list", "mutual", "chain"}

RecSchema(kind, impl) ==
    [files |->
        ("a.go" :> File("main", <<>>,
                        <<Struct("A",
                            CASE kind = "self" -> <<Field("Next", NoTags, Star("A"))>>
                              [] kind = "list" ->
                                   <<Field("Kids", Tags(<<Max(2)>>),
                                           Array(<<Slice>>, Star("A")))>>
                              [] OTHER -> <<Field("B", NoTags, Star("B"))>>),
                          Struct("B",
                            IF kind = "mutual" THEN <<Field("A", NoTags, Star("A"))>>
                            ELSE <<Field("F", NoTags, Uint64)>>)>>,
                        IF impl THEN Methods("A", AllSSZ) ELSE <<>>)),
     include |-> <<>>]

RecConfigs ==
    {Config(sc.files, sc.include, tg, {}, "", FALSE) :
        sc \in {RecSchema(kind, impl) : kind \in RecKinds, impl \in BOOLEAN},
        tg \in {<<>>, <<"B">>}}

\* The state encode starts generateIR in, for the files and flags of cfg.
Start(cfg) ==
    /\ files = cfg.files
    /\ include = cfg.include
    /\ targets = cfg.targets
    /\ excludeTypeNames = cfg.excludeTypeNames
    /\ output = cfg.output
    /\ e = NewEnv(cfg.emptyDimsFail)
    /\ pendingFiles = DOMAIN cfg.files
    /\ pendingInclude = DOMAIN cfg.include
    /\ idx = 0
    /\ pc = "imports"
    /\ err = <<>>
    /\ out = NoOut
    /\ written = <<>>

\* No root is computed yet.
NoRoot == <<"none">>

\* No generated procedure is run.
NoRun ==
    /\ codecType = TBool
    /\ value = FALSE
    /\ encoded = EncodeError
    /\ decoded = DecodeError
    /\ root = NoRoot
    /\ otherType = TBool
    /\ otherRoot = NoRoot
    /\ step = "none"

Schemas ==
    \/ \E cfg \in RefConfigs : Start(cfg)
    \/ \E cfg \in ArrayConfigs : Start(cfg)
    \/ \E cfg \in DupConfigs : Start(cfg)
    \/ \E cfg \in AliasConfigs : Start(cfg)
    \/ \E cfg \in ErrConfigs : Start(cfg)
    \/ \E cfg \in RecConfigs : Start(cfg)

Init == Schemas /\ NoRun

Spec == Init /\ [][Next]_vars

\* ------------------------------------------------------------- codec: a run

\* The largest length of a value explored, and the largest maximum a List
\* declares, in the types explored.
MaxLen == 2

MaxBound == 4

ByteValues == {0, 7}

UintValues == {0, 1, 258}

ElementTypes ==
    {TUint(1), TUint(8), TBytes(2), TBytesMax(1), TBitlist(2), TContainer(<<>>),
     TContainer(<<TUint(1), TBytesMax(1)>>), TList(1, TUint(1))}

NestedTypes ==
    {TContainer(<<TUint(2), TList(2, TUint(1)), TBool, TBytesMax(2)>>),
     TContainer(<<TList(1, TBitlist(2)), TVector(2, TUint(8)),
                  TContainer(<<TBytesMax(1), TUint(1)>>)>>),
     TList(2, TList(2, TBool)),
     TVector(2, TContainer(<<TBitlist(1), TBool>>))}

Types ==
    {TUint(1), TUint(2), TUint(8), TBool, TBytes(2), TBytesMax(3), TBitlist(9)}
    \cup {TVector(2, elt) : elt \in ElementTypes}
    \cup {TList(n, elt) : n \in 1..MaxBound, elt \in ElementTypes}
    \cup NestedTypes

RECURSIVE ValuesOf(_)
RECURSIVE ValuesOfFields(_, _)

\* The values of the fields from i on.
ValuesOfFields(tys, i) ==
    IF i > Len(tys) THEN {<<>>}
    ELSE {<<x>> \o rest : x \in ValuesOf(tys[i]), rest \in ValuesOfFields(tys, i + 1)}

\* The well-typed values explored of a type.
ValuesOf(ty) ==
    CASE ty.t = "uint" -> {n \in UintValues : fits(n, ty.s)}
      [] ty.t = "bool" -> BOOLEAN
      [] ty.t = "bytes" -> IF ty.fixed THEN SeqsOf(ByteValues, ty.s, ty.s)
                           ELSE SeqsOf(ByteValues, 0, Min(ty.m, MaxLen))
      [] ty.t = "bitlist" -> SeqsOf(BOOLEAN, 0, Min(ty.m, MaxLen))
      [] ty.t = "vector" -> ValuesOfFields(elements(ty, ty.s), 1)
      [] ty.t = "list" ->
            UNION {ValuesOfFields(elements(ty, n), 1) : n \in 0..Min(ty.m, MaxLen)}
      [] ty.t = "container" -> ValuesOfFields(ty.o, 1)

\* The List types of another maximum that hold the same elements.
others(ty, val) ==
    IF ty.t # "list" THEN {}
    ELSE {ty2 \in Types : /\ ty2.t = "list"
                          /\ ty2.o = ty.o
                          /\ ty2.m # ty.m
                          /\ wellTyped(ty2, val)}

\* The builder is left where it starts.
NoSchema == Config(<<>>, <<>>, <<>>, {}, "", FALSE)

CodecInit ==
    /\ Start(NoSchema)
    /\ codecType \in Types
    /\ value \in ValuesOf(codecType)
    /\ encoded = EncodeError
    /\ decoded = DecodeError
    /\ root = NoRoot
    /\ otherType = codecType
    /\ otherRoot = NoRoot
    /\ step = "value"

\* marshal(value).
Marshal ==
    /\ step = "value"
    /\ encoded' = marshal(codecType, value)
    /\ step' = "marshalled"
    /\ UNCHANGED <<buildVars, codecType, value, decoded, root, otherType, otherRoot>>

\* unmarshal(buffer), of the buffer marshal filled.
Unmarshal ==
    /\ step = "marshalled"
    /\ encoded.ok
    /\ decoded' = unmarshal(codecType, encoded.b)
    /\ step' = "unmarshalled"
    /\ UNCHANGED <<buildVars, codecType, value, encoded, root, otherType, otherRoot>>

\* hashTreeRoot(value).
HashTreeRoot ==
    /\ step = "unmarshalled"
    /\ root' = hashTreeRoot(codecType, value)
    /\ step' = "hashed"
    /\ UNCHANGED <<buildVars, codecType, value, encoded, decoded, otherType, otherRoot>>

\* hashTreeRoot of the same elements as a value of a List type of another
\* maximum.
HashTreeRootOther(ty2) ==
    /\ step = "hashed"
    /\ ty2 \in others(codecType, value)
    /\ otherType' = ty2
    /\ otherRoot' = hashTreeRoot(ty2, value)
    /\ step' = "compared"
    /\ UNCHANGED <<buildVars, codecType, value, encoded, decoded, root>>

CodecNext ==
    \/ Marshal
    \/ Unmarshal
    \/ HashTreeRoot
    \/ \E ty2 \in Types : HashTreeRootOther(ty2)

CodecSpec == CodecInit /\ [][CodecNext]_vars


\* --------------------------------------------------------------------- claims

\* The declaration the name of a registry entry resolves to.
declOf(name) == e.raw[getRawItemByName(e.raw, name)]

\* The fields of a struct declaration that the builder makes a node of.
usedFields(decl) ==
    SelectSeq(decl.fields,
              LAMBDA f : f.nnames = 1 /\ f.exported /\ ~f.xxx /\ ~f.tags.omit)

\* The names of the registry that are built from a struct declaration.
builtStructs ==
    {n \in DOMAIN e.objs : /\ declOf(n).struct
                           /\ ~declOf(n).implFunc
                           /\ e.heap[e.objs[n]].t = "container"
                           /\ Len(e.heap[e.objs[n]].o) = Len(usedFields(declOf(n)))}

\* The use sites of the registry: every field f of a built struct, with the
\* address v of the node the builder made for it.
useSites ==
    UNION {{[owner |-> n, f |-> usedFields(declOf(n))[j], v |-> e.heap[e.objs[n]].o[j]] :
                j \in 1..Len(e.heap[e.objs[n]].o)} : n \in builtStructs}

\* generateIR has returned nil.
built == pc \in {"generated", "done"}

\* C1: isFixed follows the table for every node of the type model: true for
\* Uint and Bool, the fixed flag for Bytes, false for List and Bitlist, the
\* element's answer for Vector, all the fields' for Container, and, for a
\* Reference, true exactly when the use site carries a bound width.
C1_IsFixedTable ==
    /\ \A a \in 1..Len(e.heap) :
          CASE e.heap[a].t \in {"uint", "bool"} -> isFixed(e.heap, a) = Fixed(TRUE)
            [] e.heap[a].t = "bytes" -> isFixed(e.heap, a) = Fixed(e.heap[a].fixed)
            [] e.heap[a].t \in {"list", "bitlist"} -> isFixed(e.heap, a) = Fixed(FALSE)
            [] e.heap[a].t = "vector" /\ e.heap[a].e # 0 ->
                   isFixed(e.heap, a) = isFixed(e.heap, e.heap[a].e)
            [] e.heap[a].t = "container" ->
                   \/ \E j \in 1..Len(e.heap[a].o) : isFixed(e.heap, e.heap[a].o[j]).panic
                   \/ isFixed(e.heap, a) =
                          Fixed(\A j \in 1..Len(e.heap[a].o) :
                                    isFixed(e.heap, e.heap[a].o[j]).fixed)
            [] OTHER -> TRUE
    /\ \A u \in useSites :
          /\ e.heap[u.v].t = "reference" =>
                 isFixed(e.heap, u.v) = Fixed(getTagsIntSize(u.f.tags).ok)
          /\ u.f.typ.kind = "sel" /\ u.f.typ.name \in BitvectorNames
                 /\ u.f.typ.lens = <<>> =>
                 isFixed(e.heap, u.v) = Fixed(TRUE)

\* The part of the table that does not depend on the use site: it holds.
referenceNodes ==
    \A a \in 1..Len(e.heap) :
       e.heap[a].t = "reference" => isFixed(e.heap, a) = Fixed(e.heap[a].s # 0)

\* The root of a tree, but the fields a use site writes on its node.
atUseSite(tree) == [tree EXCEPT !.name = "", !.obj = "", !.ref = "", !.noPtr = FALSE]

\* Every returned node shares no node with the registry entry of its name
\* nor with another returned node, and is, but for what its use site wrote
\* on it, what the registry entry is.
copiesPrivate ==
    /\ \A i \in 1..Len(e.copies) :
          /\ e.copies[i].name \in DOMAIN e.objs
          /\ Reach(e.heap, e.copies[i].v)
                 \cap Reach(e.heap, e.objs[e.copies[i].name]) = {}
          /\ atUseSite(Tree(e.heap, e.copies[i].v))
                 = atUseSite(Tree(e.heap, e.objs[e.copies[i].name]))
    /\ \A i, j \in 1..Len(e.copies) :
          i # j => Reach(e.heap, e.copies[i].v) \cap Reach(e.heap, e.copies[j].v) = {}

\* A name of the registry keeps its entry, and the entry its tree.
registryKept ==
    \A n \in DOMAIN e.objs :
       /\ n \in DOMAIN e'.objs
       /\ e'.objs[n] = e.objs[n]
       /\ Tree(e'.heap, e'.objs[n]) = Tree(e.heap, e.objs[n])

\* C2: a named type is stored in the registry once, when it is first
\* resolved, and every resolution, the first one too, hands out a deep copy:
\* a returned node shares no node with the registry entry nor with another
\* returned node, and whatever name, ref and noPtr the use sites write on
\* their nodes, the registry entry stays as it was stored.
C2_DeepCopies == []copiesPrivate /\ [][registryKept]_vars

\* Two use sites of one named type that has nodes below its root have their
\* copies, one of them with a ref written on it.
C2_Witness ==
    \E i, j \in 1..Len(e.copies) :
       /\ i # j
       /\ e.copies[i].name = e.copies[j].name
       /\ Cardinality(Reach(e.heap, e.copies[i].v)) > 1
       /\ e.heap[e.copies[i].v].name # e.heap[e.copies[j].v].name
       /\ \E u \in useSites : e.heap[u.v].ref # "" /\ e.heap[u.v].t = "container"

\* C3: two use sites of one named type that carry different bound annotations
\* each receive a node whose bound width is that of its own annotation, and
\* the registry entry has the bound width of neither, whichever is resolved
\* first.  Stated of the use sites of Reference types, whose bound width is
\* the ssz-size of the tag.
C3_OwnBounds ==
    \A u, w \in useSites :
       /\ u.f.typ = w.f.typ
       /\ u.f.typ.kind \in {"ident", "star"}
       /\ u.f.typ.lens = <<>>
       /\ u.f.typ.name \in DOMAIN e.objs
       /\ e.heap[e.objs[u.f.typ.name]].t = "reference"
       /\ getTagsIntSize(u.f.tags).n # getTagsIntSize(w.f.tags).n
       => /\ e.heap[u.v].s = getTagsIntSize(u.f.tags).n
          /\ e.heap[w.v].s = getTagsIntSize(w.f.tags).n
          /\ e.heap[e.objs[u.f.typ.name]].s \notin
                 {getTagsIntSize(u.f.tags).n, getTagsIntSize(w.f.tags).n} \ {0}

\* The files of the schema: those of the source path and the included ones.
schemaFiles == files @@ include

\* The names of the type declarations of the file f, in their order.
declNames(f) == names(decodeASTStruct(schemaFiles[f]).objs, 1)

\* The type declarations of the schema, each the file and the position it has.
declSites ==
    UNION {{<<f, i>> : i \in 1..Len(declNames(f))} : f \in DOMAIN schemaFiles}

duplicateNames ==
    \E x, y \in declSites : x # y /\ declNames(x[1])[x[2]] = declNames(y[1])[y[2]]

\* C4: a schema two type declarations of which have the same name, in
\* whatever packages, makes generateIR fail with the error that two structs
\* share a name, before a field is resolved; a schema that is built resolves
\* every name to the one declaration it has.
C4_DuplicateNames ==
    /\ duplicateNames /\ pendingFiles = {} /\ pendingInclude = {} /\ pc # "imports"
           => /\ pc = "failed"
              /\ err = <<"two structs share the same name">>
              /\ DOMAIN e.objs = {}
    /\ built => \A i, j \in 1..Len(e.raw) : e.raw[i].name = e.raw[j].name => i = j

\* The type called name of the package packName has every one of the four
\* functions, with the recognised signature, in a file of the package.
suppliesAll(name, packName) ==
    \A m \in SSZMethods :
       \E f \in DOMAIN schemaFiles :
          /\ schemaFiles[f].pkg = packName
          /\ \E k \in 1..Len(schemaFiles[f].funcs) :
                /\ schemaFiles[f].funcs[k].recv = name
                /\ schemaFiles[f].funcs[k].ptr
                /\ schemaFiles[f].funcs[k].name = m
                /\ schemaFiles[f].funcs[k].sig

\* C5: a declared type is a Reference in the registry, a node with no field
\* and no element, exactly when the files of its package, in whichever of
\* them, declare all four functions for it with the recognised signatures.
C5_ReferenceIffAllFour ==
    \A n \in DOMAIN e.objs :
       /\ suppliesAll(declOf(n).name, declOf(n).packName)
              <=> e.heap[e.objs[n]].t = "reference"
       /\ e.heap[e.objs[n]].t = "reference"
              => e.heap[e.objs[n]].o = <<>> /\ e.heap[e.objs[n]].e = 0

\* C6: when the building of the type model fails for a type it processes, no
\* generator is invoked and nothing is written: the run ends there, with the
\* error, and does nothing more.
C6_NoOutputOnFailure ==
    err # <<>> => /\ pc \in {"failed", "crashed"}
                  /\ out = NoOut
                  /\ written = <<>>
                  /\ ~ENABLED Next

\* The building fails at a type after other types have been stored.
C6_Witness ==
    /\ pc = "failed"
    /\ idx > 1
    /\ DOMAIN e.objs # {}
    /\ err # <<>>

\* C7: a field whose type expression has r array levels and whose tag has k
\* bound annotations is built only when k = r; fewer annotations and more
\* annotations both are errors.  Stated of the fields that carry an
\* annotation, k >= 1, which the builder reads one by one.
C7_RankMatches ==
    \A u \in useSites :
       u.f.typ.lens # <<>> /\ Len(u.f.tags.dims) >= 1
           => Len(u.f.tags.dims) = Len(u.f.typ.lens)

\* The errors of the check of a literal length against its annotation.
arraySizeErrors ==
    {"unexpected type for fixed size array", "mismatch between ssz-size and array fixed size"}

\* A type expression of the schema has a literal length.
literalLengths ==
    \E i \in 1..Len(e.raw) :
       \/ \E k \in 1..Len(e.raw[i].typ.lens) : e.raw[i].typ.lens[k].kind # "slice"
       \/ \E j \in 1..Len(e.raw[i].fields) :
             \E k \in 1..Len(e.raw[i].fields[j].typ.lens) :
                e.raw[i].fields[j].typ.lens[k].kind # "slice"

\* C8: a dimension written with a literal length n is built only with the
\* annotation of a Vector of exactly n: with another length, with the
\* annotation of a List, the build fails; a dimension written as a slice is
\* never rejected by this check.  Stated of the fields that carry an
\* annotation, k >= 1.
C8_LiteralLengths ==
    /\ \A u \in useSites :
          Len(u.f.tags.dims) >= 1 =>
             \A i \in 1..Len(u.f.typ.lens) :
                u.f.typ.lens[i].kind # "slice"
                    => /\ i <= Len(u.f.tags.dims)
                       /\ u.f.typ.lens[i].kind = "lit"
                       /\ IsVector(u.f.tags.dims[i])
                       /\ VectorLen(u.f.tags.dims[i]) = u.f.typ.lens[i].n
    /\ (\E k \in 1..Len(err) : err[k] \in arraySizeErrors) => literalLengths

\* What the check of lines 959-969 does establish: a literal length that the
\* loop over the annotations comes to has the annotation of a Vector of that
\* length, and no schema without a literal length fails with its errors.
annotatedLiterals ==
    /\ \A u \in useSites :
          \A i \in 1..Min(Len(u.f.typ.lens), Len(u.f.tags.dims)) :
             u.f.typ.lens[i].kind # "slice"
                 => /\ u.f.typ.lens[i].kind = "lit"
                    /\ IsVector(u.f.tags.dims[i])
                    /\ VectorLen(u.f.tags.dims[i]) = u.f.typ.lens[i].n
    /\ (\E k \in 1..Len(err) : err[k] \in arraySizeErrors) => literalLengths

\* The files that FileNames names, in its order.
sortedNames(fs) == SelectSeq(FileNames, LAMBDA f : f \in DOMAIN fs)

\* generateIR with the files visited in the order of their names.
sortedRun ==
    generateIR(NewEnv(e.emptyDimsFail), files, include, targets,
               sortedNames(files), sortedNames(include))

\* C9: the type model generateIR builds is the same whatever the order the
\* files are visited in: the registry has the names, the trees and the
\* classification of the run that visits the files in the order of their names.
C9_OrderIndependent ==
    built => /\ sortedRun.err = <<>>
             /\ DOMAIN sortedRun.env.objs = DOMAIN e.objs
             /\ \A n \in DOMAIN e.objs :
                   /\ Tree(sortedRun.env.heap, sortedRun.env.objs[n])
                          = Tree(e.heap, e.objs[n])
                   /\ isFixed(sortedRun.env.heap, sortedRun.env.objs[n])
                          = isFixed(e.heap, e.objs[n])

\* A named type is trivially aliased: an alias of a basic type of fixed size.
trivialAlias(n) ==
    \/ e.heap[e.objs[n]].t \in {"uint", "bool"}
    \/ e.heap[e.objs[n]].t = "bytes" /\ e.heap[e.objs[n]].fixed

\* The names the procedures are due for among those of order, in its order.
dueIn(order) ==
    SelectSeq(order, LAMBDA n : /\ n \notin excludeTypeNames
                               /\ n \in DOMAIN e.objs
                               /\ e.heap[e.objs[n]].t # "reference"
                               /\ ~trivialAlias(n))

\* C10: with no list of targets, the four procedures are generated for
\* exactly the types declared in the source files that are not Reference
\* types, not trivial aliases and not excluded, in the order of their
\* declarations in their file.
C10_ProceduresFor ==
    built /\ targets = <<>> /\ ~duplicateNames =>
       IF output = ""
       THEN /\ \A f \in DOMAIN out.files : f \in DOMAIN files
            /\ \A f \in DOMAIN files :
                  IF dueIn(declNames(f)) = <<>> THEN f \notin DOMAIN out.files
                  ELSE f \in DOMAIN out.files /\ out.files[f] = dueIn(declNames(f))
       ELSE /\ DOMAIN out.files = {output}
            /\ out.files[output] =
                   dueIn(concatOrders([f \in DOMAIN files |-> declNames(f)],
                                      sortedNames(files), 1))

\* The names the declaration e.raw[i] makes encodeItem resolve: none when it
\* has the four functions, those of its fields or of its type otherwise.
namedIn(typ) ==
    IF typ.kind \in {"star", "starsel"} THEN {typ.name}
    ELSE IF typ.kind = "sel" /\ typ.name # "Bitlist" /\ typ.name \notin BitvectorNames
    THEN {typ.name}
    ELSE IF typ.kind = "ident"
            /\ typ.name \notin {"uint64", "uint32", "uint16", "uint8", "bool", "byte"}
    THEN {typ.name}
    ELSE {}

refersTo(name) ==
    IF getRawItemByName(e.raw, name) = 0 \/ declOf(name).implFunc THEN {}
    ELSE IF declOf(name).struct
    THEN UNION {namedIn(usedFields(declOf(name))[j].typ) :
                    j \in 1..Len(usedFields(declOf(name)))}
    ELSE namedIn(declOf(name).typ)

\* The names reached from those of S in n steps or fewer.
RECURSIVE reached(_, _)
reached(S, n) ==
    IF n = 0 THEN S ELSE reached(S \cup UNION {refersTo(m) : m \in S}, n - 1)

\* A named type of the schema refers to itself, directly or through others.
cyclic ==
    \E i \in 1..Len(e.raw) :
       e.raw[i].name \in reached(refersTo(e.raw[i].name), Len(e.raw))

overflow == err # <<>> /\ err[1] = "stack overflow"

\* The nesting of encodeItem goes beyond MaxDepth only for a schema a named
\* type of which refers to itself: there the nesting has no end.
overflowOnCycle == overflow => cyclic /\ MaxDepth > Len(e.raw)

\* C11: the resolution of a named type always finishes, with a node or with
\* a build failure, whatever references there are among the named types, a
\* type that refers to itself included: it never runs out of stack.
C11_ResolutionFinishes == ~overflow

\* The sizes of the basic types of the Ident case.
basicSizes == [uint64 |-> 8, uint32 |-> 4, uint16 |-> 2, uint8 |-> 1, bool |-> 1]

\* The node at a is the node of the element type typ: the basic node of its
\* name, or what the registry has for the named type.
elementNode(a, typ) ==
    IF typ.kind = "ident" /\ typ.name \in DOMAIN basicSizes
    THEN /\ e.heap[a].t = (IF typ.name = "bool" THEN "bool" ELSE "uint")
         /\ e.heap[a].s = basicSizes[typ.name]
         /\ e.heap[a].e = 0
         /\ e.heap[a].o = <<>>
    ELSE /\ typ.name \in DOMAIN e.objs
         /\ atUseSite(Tree(e.heap, a)) = atUseSite(Tree(e.heap, e.objs[typ.name]))

\* From level i on, the nodes below a are the chain the annotations of the
\* field f ask for, the node of the element type at its end.
RECURSIVE chainFrom(_, _, _)
chainFrom(a, f, i) ==
    /\ a # 0
    /\ IsVector(f.tags.dims[i]) =>
           e.heap[a].t = "vector" /\ e.heap[a].s = VectorLen(f.tags.dims[i])
    /\ IsList(f.tags.dims[i]) =>
           e.heap[a].t = "list" /\ e.heap[a].m = ListLen(f.tags.dims[i])
    /\ e.heap[a].t \in {"vector", "list"}
    /\ e.heap[a].o = <<>>
    /\ e.heap[a].e # 0
    /\ IF i < Len(f.typ.lens) THEN chainFrom(e.heap[a].e, f, i + 1)
       ELSE elementNode(e.heap[a].e, Elt(f.typ))

\* The fields of k array levels and k annotations whose element is no byte.
chainSites ==
    {u \in useSites : /\ u.f.typ.lens # <<>>
                      /\ Len(u.f.tags.dims) = Len(u.f.typ.lens)
                      /\ ~(u.f.typ.kind = "ident" /\ u.f.typ.name = "byte")}

\* C14: an array expression of k levels whose innermost element is no byte,
\* built with k annotations, is a chain of exactly k collection nodes, outer
\* to inner, the i-th a Vector of the annotated length for a fixed
\* annotation and a List of the annotated maximum for a bounded one, and the
\* element of the innermost collection is the node of the element type.
C14_CollectionChain == \A u \in chainSites : chainFrom(u.v, u.f, 1)

\* A field of two levels, a list of vectors of a named struct, is built.
C14_Witness ==
    \E u \in chainSites :
       /\ Len(u.f.typ.lens) = 2
       /\ IsList(u.f.tags.dims[1])
       /\ IsVector(u.f.tags.dims[2])
       /\ u.f.typ.kind = "star"
       /\ e.heap[e.heap[e.heap[u.v].e].e].t = "container"

\* The node n - 1 elements below a.
RECURSIVE inner(_, _)
inner(a, n) == IF n = 1 \/ a = 0 THEN a ELSE inner(e.heap[a].e, n - 1)

\* The array fields whose element is a byte and that carry annotations,
\* none of them that of a bit list.
byteFields ==
    {u \in useSites : /\ u.f.typ.lens # <<>>
                      /\ u.f.typ.kind = "ident"
                      /\ u.f.typ.name = "byte"
                      /\ Len(u.f.tags.dims) >= 1
                      /\ \A i \in 1..Len(u.f.tags.dims) : ~IsBitlist(u.f.tags.dims[i])}

\* The node at a is a Bytes node with the bound of the annotation dim.
bytesNode(a, dim) ==
    /\ e.heap[a].t = "bytes"
    /\ e.heap[a].e = 0
    /\ IsVector(dim) => e.heap[a].fixed /\ e.heap[a].s = VectorLen(dim)
    /\ IsList(dim) => ~e.heap[a].fixed /\ e.heap[a].m = ListLen(dim)

\* C15: every array dimension whose element is a byte is built as a Bytes
\* node, never as a Vector or a List: fixed, of the annotated length, for a
\* fixed annotation, bounded by the annotated maximum for a maximum.  Stated
\* of the fields that carry annotations, k >= 1, none of a bit list.
C15_BytesOnly ==
    \A u \in byteFields :
       /\ inner(u.v, Len(u.f.typ.lens)) # 0
       /\ e.heap[inner(u.v, Len(u.f.typ.lens))].t = "bytes"
       /\ Len(u.f.tags.dims) >= Len(u.f.typ.lens)
              => bytesNode(inner(u.v, Len(u.f.typ.lens)),
                           u.f.tags.dims[Len(u.f.typ.lens)])

\* What lines 979-997 do establish, for the fields that have as many
\* annotations as array levels: the innermost level is a Bytes node with the
\* bound of its annotation, or a Bitlist node for the annotation of a bit list.
bytesWhenRanked ==
    \A u \in {w \in useSites : /\ w.f.typ.lens # <<>>
                               /\ w.f.typ.kind = "ident"
                               /\ w.f.typ.name = "byte"
                               /\ Len(w.f.tags.dims) = Len(w.f.typ.lens)} :
       IF IsBitlist(u.f.tags.dims[Len(u.f.typ.lens)])
       THEN /\ e.heap[inner(u.v, Len(u.f.typ.lens))].t = "bitlist"
            /\ e.heap[inner(u.v, Len(u.f.typ.lens))].m
                   = ListLen(u.f.tags.dims[Len(u.f.typ.lens)])
       ELSE bytesNode(inner(u.v, Len(u.f.typ.lens)), u.f.tags.dims[Len(u.f.typ.lens)])

\* Every array field of every struct declaration carries an annotation.
allAnnotated ==
    \A i \in 1..Len(e.raw) :
       e.raw[i].struct =>
          \A j \in 1..Len(e.raw[i].fields) :
             e.raw[i].fields[j].typ.lens # <<>>
                 => Len(e.raw[i].fields[j].tags.dims) >= 1

\* The node at a has one of the kinds that lines 231-250 define past
\* TypeUndefined, and an element when it is a Vector or a List.
wellFormed(a) ==
    /\ e.heap[a].t \in {"uint", "bool", "bytes", "bitlist", "vector", "list",
                        "container", "reference"}
    /\ e.heap[a].t \in {"vector", "list"} => e.heap[a].e # 0

\* C16: every node reachable from a node the builder returned without error
\* has a defined kind, every Vector and List has an element, and isFixed
\* does not panic on it.  Stated of the registry of the schemas in which
\* every array field is annotated.
C16_WellFormedModel ==
    allAnnotated /\ err = <<>> =>
        \A n \in DOMAIN e.objs :
           /\ \A a \in Reach(e.heap, e.objs[n]) : wellFormed(a)
           /\ ~isFixed(e.heap, e.objs[n]).panic

\* C12: round trip: for every well-typed value of every type, unmarshal of
\* what marshal wrote succeeds and returns the value.
C12_RoundTrip ==
    step \in {"unmarshalled", "hashed", "compared"}
        => encoded.ok /\ decoded = Decoded(value)

RECURSIVE emptyElements(_)

\* The type has a List whose elements are fixed and take no byte.
emptyElements(ty) ==
    \/ ty.t = "list" /\ fixedType(ty.o[1]) /\ width(ty.o[1]) = 0
    \/ \E i \in 1..Len(ty.o) : emptyElements(ty.o[i])

\* What the procedures do establish: the round trip of every value of the
\* types whose Lists have no such elements.
roundTripOfElements ==
    step \in {"unmarshalled", "hashed", "compared"} /\ ~emptyElements(codecType)
        => encoded.ok /\ decoded = Decoded(value)

\* C13: two values of identical elements, of two List types that declare
\* different maximums, have different roots.
C13_LengthMixing ==
    step = "compared" => root # otherRoot

\* The chunks the tree of a List type has room for.
roomOf(ty) == nextPowerOfTwo(capacity(ty), 1)

\* C13, for the maximums that give trees of different sizes: two values of
\* identical elements, of two such List types, have different roots.
C13_DifferentCapacity ==
    step = "compared" /\ roomOf(codecType) # roomOf(otherType) => root # otherRoot

\* Two List types with trees of different sizes hold the same elements, one
\* at least, and their roots are computed.
C13_Witness ==
    /\ step = "compared"
    /\ roomOf(codecType) # roomOf(otherType)
    /\ value # <<>>

=============================================================================
